---- MODULE Spec2Model ----
(***************************************************************************)
(* A model of aws_idc_list_user_permissions/list_utils.py: the paginated   *)
(* listers of IAM Identity Center entities, the assignment lister that     *)
(* adds OriginalPrincipalId, and describe_permissions_sets, the loop that  *)
(* joins a permission set's description, inline policy, permissions        *)
(* boundary and managed policies.                                          *)
(*                                                                         *)
(* Python dicts are functions from key strings to values; Python lists are *)
(* sequences.  The remote service is the environment: it chooses the       *)
(* content of every page, whether a further page follows, and whether a    *)
(* call raises.                                                            *)
(***************************************************************************)
EXTENDS Naturals, Sequences, FiniteSets

VARIABLES
    fn,          \* the lister being executed
    user_id,     \* list_user_assignments' user_id argument ("-" for the others)
    served,      \* ghost: every item the service has returned so far, in order
    pageSizes,   \* ghost: the size of each page the service has returned
    acc,         \* build_full_result's accumulated list
    lpc,         \* "paginate" | "collected" | "returned"
    result,      \* the lister's return value
    permission_sets,        \* describe_permissions_sets' input list of ARNs
    idx,                    \* the position of the for loop in permission_sets
    pc,                     \* the remote call describe_permissions_sets makes next
    permission_set_lookup,  \* the dict being built
    raised,                 \* the exception leaving describe_permissions_sets, "" if none
    returned,               \* <<>> before the return, <<the dict returned>> after
    calls,                  \* ghost: the remote operations issued, <<operation, ARN>> each
    fault,                  \* ghost: <<>> or <<the last error the service answered>>
    lastBoundary            \* ghost: per ARN, the service's last answer on its boundary

\* what the listers alone use
listOnly == <<fn, user_id, served, lpc, result>>

\* what describe_permissions_sets alone uses
descOnly ==
    <<permission_sets, idx, pc, permission_set_lookup, raised, returned, calls,
      fault, lastBoundary>>

vars == <<listOnly, descOnly, acc, pageSizes>>

-----------------------------------------------------------------------------
(* Bounds of the model. *)

\* pages one listing may take
MaxPages == 3
\* items on one page
MaxPerPage == 2
\* items one listing of instances, accounts, users, groups, permission sets or
\* managed policies returns in all
MaxItems == 6
\* assignment records one listing returns in all
MaxAssignments == 4
\* permission sets handed to describe_permissions_sets
MaxSets == 3
\* pages one listing of a permission set's managed policies takes inside
\* describe_permissions_sets
MaxManagedPages == 2

-----------------------------------------------------------------------------
(* Python values. *)

\* d[k] = v on a dict, and dict(d, k=v): k is added, or overwritten when present.
DictSet(d, k, v) == [x \in (DOMAIN d) \cup {k} |-> IF x = k THEN v ELSE d[x]]

\* the empty dict, dict()
EmptyDict == [x \in {} |-> x]

\* a slip in the accumulation: the new page goes in front of the earlier ones
ExtendInFront(list, page) == page \o list

\* list.extend, as build_full_result applies it to every page's result key
Extend(list, page) == list \o page

\* {item[key]: item for item in items}: a later item replaces an earlier one
\* with the same key
RECURSIVE DictComp(_, _)
DictComp(items, key) ==
    IF items = <<>> THEN EmptyDict
    ELSE LET n == Len(items)
         IN  DictSet(DictComp(SubSeq(items, 1, n - 1), key), items[n][key], items[n])

-----------------------------------------------------------------------------
(* What the remote service can return. *)

SeqListers ==
    {"list_instances", "list_groups", "list_permission_sets",
     "list_managed_policy_permission_set", "list_user_assignments"}

DictListers == {"list_accounts", "list_users"}

Listers == SeqListers \cup DictListers

Accounts ==
    {[Id |-> "111", Name |-> "prod"], [Id |-> "111", Name |-> "prod-renamed"],
     [Id |-> "222", Name |-> "dev"]}

Users ==
    {[UserId |-> "u1", UserName |-> "ann"], [UserId |-> "u1", UserName |-> "ann2"],
     [UserId |-> "u2", UserName |-> "bob"]}

\* Account assignments: direct (USER) and through a group (GROUP), two of them on
\* the same account and permission set, and one that already carries an
\* OriginalPrincipalId field.
Assignments ==
    {[AccountId |-> "111", PermissionSetArn |-> "arn:A", PrincipalId |-> "u1",
      PrincipalType |-> "USER"],
     [AccountId |-> "111", PermissionSetArn |-> "arn:A", PrincipalId |-> "g1",
      PrincipalType |-> "GROUP"],
     [AccountId |-> "222", PermissionSetArn |-> "arn:B", PrincipalId |-> "g1",
      PrincipalType |-> "GROUP"],
     [AccountId |-> "222", PermissionSetArn |-> "arn:A", PrincipalId |-> "g1",
      PrincipalType |-> "GROUP", OriginalPrincipalId |-> "g1"]}

UserIds == {"u1", "u2"}

Items(f) ==
    CASE f = "list_instances" -> {"ssoins-1", "ssoins-2"}
      [] f = "list_groups" -> {"g1", "g2"}
      [] f = "list_permission_sets" -> {"arn:A", "arn:B"}
      [] f = "list_managed_policy_permission_set" -> {"mp1", "mp2"}
      [] f = "list_accounts" -> Accounts
      [] f = "list_users" -> Users
      [] f = "list_user_assignments" -> Assignments

SeqsUpTo(S, n) == UNION {[1..k -> S] : k \in 0..n}

Cap(f) == IF f = "list_user_assignments" THEN MaxAssignments ELSE MaxItems

-----------------------------------------------------------------------------
(* The listers. *)

ListInit ==
    /\ fn \in Listers
    /\ user_id \in (IF fn = "list_user_assignments" THEN UserIds ELSE {"-"})
    /\ served = <<>>
    /\ pageSizes = <<>>
    /\ acc = <<>>
    /\ lpc = "paginate"
    /\ result = <<>>

\* paginator.paginate(...).build_full_result()[key]: one request per page, each
\* page's items appended, until the service gives no further token.
FetchPage ==
    /\ lpc = "paginate"
    /\ \E page \in SeqsUpTo(Items(fn), MaxPerPage), more \in BOOLEAN :
          /\ Len(served) + Len(page) <= Cap(fn)
          /\ more => Len(pageSizes) + 1 < MaxPages
          /\ acc' = Extend(acc, page)
          /\ served' = served \o page
          /\ pageSizes' = Append(pageSizes, Len(page))
          /\ lpc' = IF more THEN "paginate" ELSE "collected"
    /\ UNCHANGED <<fn, user_id, result, descOnly>>

\* a slip in list_accounts: indexed by the display name
AccountKeyName == "Name"

\* the key list_accounts indexes by
AccountKey == "Id"

\* the key list_users indexes by
UserKey == "UserId"

\* a slip in the enrichment: the record's own principal is copied
AddOriginalFromRecord(assignment, uid) ==
    DictSet(assignment, "OriginalPrincipalId", assignment["PrincipalId"])

\* a slip in the enrichment: the queried user also replaces the record's principal
AddOriginalAndReplace(assignment, uid) ==
    DictSet(DictSet(assignment, "PrincipalId", uid), "OriginalPrincipalId", uid)

\* dict(assignment, OriginalPrincipalId=user_id)
AddOriginal(assignment, uid) == DictSet(assignment, "OriginalPrincipalId", uid)

\* the (account, permission set) pair of an assignment record
Pair(assignment) == <<assignment["AccountId"], assignment["PermissionSetArn"]>>

\* a different enrichment: only the first record of each (account, permission
\* set) pair is kept
RECURSIVE EnrichOnePerPair(_, _)
EnrichOnePerPair(user_assignments, uid) ==
    IF user_assignments = <<>> THEN <<>>
    ELSE LET n == Len(user_assignments)
             front == EnrichOnePerPair(SubSeq(user_assignments, 1, n - 1), uid)
         IN  IF \E i \in 1..Len(front) : Pair(front[i]) = Pair(user_assignments[n])
             THEN front
             ELSE Append(front, DictSet(user_assignments[n], "OriginalPrincipalId", uid))

\* [dict(assignment, OriginalPrincipalId=user_id) for assignment in user_assignments]
Enrich(user_assignments, uid) ==
    [i \in 1..Len(user_assignments) |-> AddOriginal(user_assignments[i], uid)]

ReturnList ==
    /\ lpc = "collected"
    /\ fn \in SeqListers \ {"list_user_assignments"}
    /\ result' = acc
    /\ lpc' = "returned"
    /\ UNCHANGED <<fn, user_id, served, pageSizes, acc, descOnly>>

ReturnAccounts ==
    /\ lpc = "collected"
    /\ fn = "list_accounts"
    /\ result' = DictComp(acc, AccountKey)
    /\ lpc' = "returned"
    /\ UNCHANGED <<fn, user_id, served, pageSizes, acc, descOnly>>

ReturnUsers ==
    /\ lpc = "collected"
    /\ fn = "list_users"
    /\ result' = DictComp(acc, UserKey)
    /\ lpc' = "returned"
    /\ UNCHANGED <<fn, user_id, served, pageSizes, acc, descOnly>>

ReturnUserAssignments ==
    /\ lpc = "collected"
    /\ fn = "list_user_assignments"
    /\ result' = Enrich(acc, user_id)
    /\ lpc' = "returned"
    /\ UNCHANGED <<fn, user_id, served, pageSizes, acc, descOnly>>

-----------------------------------------------------------------------------
(* describe_permissions_sets. *)

Arns == {"arn:A", "arn:B"}

\* the exceptions a remote call can raise
ErrorKinds == {"ResourceNotFoundException", "AccessDeniedException"}

\* Python's False
PyFalse == "False"

\* the InlinePolicy a permission set can have; "" when it has none
InlinePolicies == {"", "{policy}"}

\* the PermissionsBoundary the service can answer with: empty, or a real one
Boundaries == {"{}", "boundary:bp1"}

\* the managed policies one page of the listing can hold
ManagedPages == {<<>>, <<"mp1">>}

\* Python's truth value of a boundary value
Truthy(v) == v \notin {PyFalse, "{}", ""}

\* the PermissionSet the describe call answers with
Description(arn) == [PermissionSetArn |-> arn, Name |-> "Admin"]

\* a slip: no except clause
CaughtNone(kind) == FALSE

\* a slip: a bare except, which catches every exception
CaughtAll(kind) == TRUE

\* the except clause around the boundary lookup: the exceptions it catches
Caught(kind) == kind = "ResourceNotFoundException"

\* a different store: the boundary is written whatever its value
StoreBoundaryAlways(record, boundary) == DictSet(record, "permission_boundary", boundary)

\* if not permission_set_permission_boundary:
\*     permission_set_lookup[permission_set]['permission_boundary'] = ...
StoreBoundary(record, boundary) ==
    IF ~Truthy(boundary) THEN DictSet(record, "permission_boundary", boundary)
    ELSE record

\* the key without its trailing space
ManagedKeyTrimmed == "managed_policies"

\* the key the managed policies are stored under
ManagedKey == "managed_policies "

\* a different order: the boundary is looked up before the inline policy
AfterStepBoundaryFirst(step) ==
    CASE step = "describe" -> "boundary"
      [] step = "boundary" -> "inline"
      [] step = "inline" -> "managed"

\* the order of the remote calls within one round of the loop
AfterStep(step) ==
    CASE step = "describe" -> "inline"
      [] step = "inline" -> "boundary"
      [] step = "boundary" -> "managed"

\* the remote operation each step calls
Operation(step) ==
    CASE step = "describe" -> "describe_permission_set"
      [] step = "inline" -> "get_inline_policy_for_permission_set"
      [] step = "boundary" -> "get_permissions_boundary_for_permission_set"
      [] step = "managed" -> "list_managed_policies_in_permission_set"

permission_set == permission_sets[idx]

ListIdle ==
    /\ fn = "describe_permissions_sets"
    /\ user_id = "-"
    /\ served = <<>>
    /\ lpc = "idle"
    /\ result = <<>>

DescIdle ==
    /\ permission_sets = <<>>
    /\ idx = 0
    /\ pc = "idle"
    /\ permission_set_lookup = EmptyDict
    /\ raised = ""
    /\ returned = <<>>
    /\ calls = <<>>
    /\ fault = <<>>
    /\ lastBoundary = [a \in Arns |-> "-"]

DescInit ==
    /\ permission_sets \in SeqsUpTo(Arns, MaxSets)
    /\ idx = 0
    /\ pc = "start"
    /\ permission_set_lookup = EmptyDict
    /\ raised = ""
    /\ returned = <<>>
    /\ calls = <<>>
    /\ fault = <<>>
    /\ lastBoundary = [a \in Arns |-> "-"]
    /\ acc = <<>>
    /\ pageSizes = <<>>

\* the remote operation of this step is issued; a paginated listing is logged
\* once, when its first page is requested
Called ==
    calls' = IF pc = "managed" /\ pageSizes # <<>> THEN calls
             ELSE Append(calls, <<Operation(pc), permission_set>>)

\* the remote call of this step raises kind, which nothing catches
Raise(kind) ==
    /\ Called
    /\ fault' = <<[call |-> Operation(pc), kind |-> kind, at |-> Len(calls')]>>
    /\ raised' = kind
    /\ pc' = "raised"
    /\ UNCHANGED <<permission_sets, idx, permission_set_lookup, returned,
                   lastBoundary, acc, pageSizes, listOnly>>

\* permission_set_lookup = dict(), and the for loop is entered; with no
\* permission set the empty dict is returned at once
Start ==
    /\ pc = "start"
    /\ permission_set_lookup' = EmptyDict
    /\ idx' = 1
    /\ IF permission_sets = <<>>
       THEN pc' = "done" /\ returned' = <<EmptyDict>>
       ELSE pc' = "describe" /\ returned' = returned
    /\ UNCHANGED <<permission_sets, raised, calls, fault, lastBoundary, acc,
                   pageSizes, listOnly>>

DescribePermissionSet ==
    /\ pc = "describe"
    /\ \/ /\ Called
          /\ permission_set_lookup' =
                DictSet(permission_set_lookup, permission_set,
                        Description(permission_set))
          /\ pc' = AfterStep(pc)
          /\ UNCHANGED <<permission_sets, idx, raised, returned, fault,
                         lastBoundary, acc, pageSizes, listOnly>>
       \/ \E kind \in ErrorKinds : Raise(kind)

GetInlinePolicy ==
    /\ pc = "inline"
    /\ \/ \E permission_set_inline_policy \in InlinePolicies :
             /\ Called
             /\ permission_set_lookup' =
                   DictSet(permission_set_lookup, permission_set,
                           DictSet(permission_set_lookup[permission_set],
                                   "inline_policy", permission_set_inline_policy))
             /\ pc' = AfterStep(pc)
             /\ UNCHANGED <<permission_sets, idx, raised, returned, fault,
                            lastBoundary, acc, pageSizes, listOnly>>
       \/ \E kind \in ErrorKinds : Raise(kind)

\* the boundary lookup answered (or was caught and replaced by False)
BoundaryIs(boundary) ==
    /\ permission_set_lookup' =
          DictSet(permission_set_lookup, permission_set,
                  StoreBoundary(permission_set_lookup[permission_set], boundary))
    /\ pc' = AfterStep(pc)
    /\ UNCHANGED <<permission_sets, idx, raised, returned, acc, pageSizes, listOnly>>

GetPermissionsBoundary ==
    /\ pc = "boundary"
    /\ \/ \E answer \in Boundaries :
             /\ Called
             /\ lastBoundary' = [lastBoundary EXCEPT ![permission_set] = answer]
             /\ fault' = fault
             /\ BoundaryIs(answer)
       \/ \E kind \in ErrorKinds :
             /\ Caught(kind)
             /\ Called
             /\ lastBoundary' = [lastBoundary EXCEPT ![permission_set] = kind]
             /\ fault' = <<[call |-> Operation(pc), kind |-> kind,
                            at |-> Len(calls')]>>
             /\ BoundaryIs(PyFalse)
       \/ \E kind \in ErrorKinds :
             /\ ~Caught(kind)
             /\ Raise(kind)

\* list_managed_policy_permission_set, one page of it: the pages are drained as
\* in the listers; after the last the list is stored and the loop goes on to the
\* next permission set, or returns the dict
ListManagedPolicies ==
    /\ pc = "managed"
    /\ \/ \E page \in ManagedPages, more \in BOOLEAN :
             /\ more => Len(pageSizes) + 1 < MaxManagedPages
             /\ Called
             /\ IF more
                THEN /\ acc' = Extend(acc, page)
                     /\ pageSizes' = Append(pageSizes, Len(page))
                     /\ UNCHANGED <<permission_set_lookup, idx, pc, returned>>
                ELSE /\ acc' = <<>>
                     /\ pageSizes' = <<>>
                     /\ permission_set_lookup' =
                           DictSet(permission_set_lookup, permission_set,
                                   DictSet(permission_set_lookup[permission_set],
                                           ManagedKey, Extend(acc, page)))
                     /\ idx' = idx + 1
                     /\ IF idx = Len(permission_sets)
                        THEN pc' = "done" /\ returned' = <<permission_set_lookup'>>
                        ELSE pc' = "describe" /\ returned' = returned
             /\ UNCHANGED <<permission_sets, raised, fault, lastBoundary, listOnly>>
       \/ \E kind \in ErrorKinds : Raise(kind)

-----------------------------------------------------------------------------
(* The specifications. *)

\* one call of one lister
Init == ListInit /\ DescIdle

Next ==
    \/ FetchPage
    \/ ReturnList
    \/ ReturnAccounts
    \/ ReturnUsers
    \/ ReturnUserAssignments

Spec == Init /\ [][Next]_vars

\* one call of describe_permissions_sets
InitDescribe == DescInit /\ ListIdle

NextDescribe ==
    \/ Start
    \/ DescribePermissionSet
    \/ GetInlinePolicy
    \/ GetPermissionsBoundary
    \/ ListManagedPolicies

SpecDescribe == InitDescribe /\ [][NextDescribe]_vars

-----------------------------------------------------------------------------
(* Properties of the listers, checked under Spec. *)

ListerReturned(f) == lpc = "returned" /\ fn = f

\* a dict without one key
Without(d, k) == [x \in (DOMAIN d) \ {k} |-> d[x]]

\* the number of records of a list on one (account, permission set) pair
CountOfPair(list, pair) == Cardinality({i \in 1..Len(list) : Pair(list[i]) = pair})

AllPairs == {Pair(a) : a \in Assignments}

\* C1: every record list_user_assignments returns has OriginalPrincipalId equal
\* to the user_id queried, whatever PrincipalId and PrincipalType the service
\* gave the record, and whatever number of pages the records came in.
C1_OriginalPrincipalIdIsUser ==
    ListerReturned("list_user_assignments") =>
        \A i \in 1..Len(result) :
            /\ "OriginalPrincipalId" \in DOMAIN result[i]
            /\ result[i]["OriginalPrincipalId"] = user_id

\* C1's case: records served over two pages or more, one of them a group's, one
\* already carrying another OriginalPrincipalId, none with the queried user as
\* its principal.
C1_Witness ==
    /\ ListerReturned("list_user_assignments")
    /\ Len(pageSizes) >= 2
    /\ user_id = "u2"
    /\ \E i \in 1..Len(served) : served[i]["PrincipalType"] = "GROUP"
    /\ \E i \in 1..Len(served) :
          /\ "OriginalPrincipalId" \in DOMAIN served[i]
          /\ served[i]["OriginalPrincipalId"] # user_id
    /\ \E i \in 1..Len(served) : served[i]["PrincipalType"] = "USER"

\* C4: the mapping list_accounts (list_users) returns indexes the fetched items
\* by Id (UserId): every key k maps to a fetched item whose identifier is k, and
\* the keys are the identifiers of all the items of all the pages.
C4_IndexedByNaturalId ==
    /\ ListerReturned("list_accounts") =>
          /\ \A k \in DOMAIN result :
                /\ result[k]["Id"] = k
                /\ \E i \in 1..Len(served) : served[i] = result[k]
          /\ DOMAIN result = {served[i]["Id"] : i \in 1..Len(served)}
    /\ ListerReturned("list_users") =>
          /\ \A k \in DOMAIN result :
                /\ result[k]["UserId"] = k
                /\ \E i \in 1..Len(served) : served[i] = result[k]
          /\ DOMAIN result = {served[i]["UserId"] : i \in 1..Len(served)}

\* C4's case: accounts served over three pages, two of them with the same Id, and
\* two keys in the mapping.
C4_Witness ==
    /\ ListerReturned("list_accounts")
    /\ Len(pageSizes) = 3
    /\ \E i, j \in 1..Len(served) :
          i # j /\ served[i] # served[j] /\ served[i]["Id"] = served[j]["Id"]
    /\ Cardinality(DOMAIN result) = 2

\* C5, as stated: every sequence-returning lister returns exactly the
\* concatenation of the pages' items.
C5_ExactConcatenation ==
    (lpc = "returned" /\ fn \in SeqListers) => result = served

\* C5, amended: list_instances, list_groups, list_permission_sets and
\* list_managed_policy_permission_set return exactly the concatenation of the
\* pages' items, in the order served; list_user_assignments returns that
\* concatenation with OriginalPrincipalId set on each record: as many records, in
\* the same order, each equal to the served one on every other key.
C5_DrainsAllPages ==
    (lpc = "returned" /\ fn \in SeqListers) =>
        IF fn = "list_user_assignments"
        THEN /\ Len(result) = Len(served)
             /\ \A i \in 1..Len(result) :
                   Without(result[i], "OriginalPrincipalId")
                      = Without(served[i], "OriginalPrincipalId")
        ELSE result = served

\* C5's case: three pages of two items each, six items returned, not all alike.
C5_Witness ==
    /\ ListerReturned("list_groups")
    /\ pageSizes = <<2, 2, 2>>
    /\ Len(result) = 6
    /\ result[2] # result[3]
    /\ result[4] # result[5]

\* the service lists no assignment record twice
NoRecordTwice == \A i, j \in 1..Len(served) : i # j => served[i] # served[j]

\* C7, as stated: no two records list_user_assignments returns share the same
\* (AccountId, PermissionSetArn) pair, whatever records the service returns
\* (each assignment listed once).
C7_OneRecordPerPair ==
    (ListerReturned("list_user_assignments") /\ NoRecordTwice) =>
        \A i, j \in 1..Len(result) :
            i # j => Pair(result[i]) # Pair(result[j])

\* C7, amended: list_user_assignments returns one record per record the service
\* returned: each (AccountId, PermissionSetArn) pair has as many records in the
\* result as the service returned for it, so two records of the result share a
\* pair exactly when two records of the service do.
C7_OneRecordPerServedRecord ==
    ListerReturned("list_user_assignments") =>
        \A pair \in AllPairs : CountOfPair(result, pair) = CountOfPair(served, pair)

\* C7's case: the service returns a direct assignment and a group's assignment
\* on the same account and permission set, and both are in the result.
C7_Witness ==
    /\ ListerReturned("list_user_assignments")
    /\ NoRecordTwice
    /\ \E i, j \in 1..Len(result) :
          /\ i # j
          /\ Pair(result[i]) = Pair(result[j])
          /\ result[i]["PrincipalType"] = "USER"
          /\ result[j]["PrincipalType"] = "GROUP"

\* C9: list_user_assignments changes nothing but the added OriginalPrincipalId:
\* the result has the length and order of the served records, each record has the
\* served record's keys and OriginalPrincipalId, and agrees with the served record
\* on every other key (PrincipalId and PrincipalType among them).
C9_OnlyOriginalPrincipalIdAdded ==
    ListerReturned("list_user_assignments") =>
        /\ Len(result) = Len(served)
        /\ \A i \in 1..Len(result) :
              /\ DOMAIN result[i] = (DOMAIN served[i]) \cup {"OriginalPrincipalId"}
              /\ \A k \in (DOMAIN served[i]) \ {"OriginalPrincipalId"} :
                    result[i][k] = served[i][k]

\* C9's case: a group's record is returned for a queried user, and keeps the
\* group as its principal.
C9_Witness ==
    /\ ListerReturned("list_user_assignments")
    /\ Len(pageSizes) >= 2
    /\ Len(result) >= 3
    /\ \E i \in 1..Len(result) :
          /\ served[i]["PrincipalType"] = "GROUP"
          /\ result[i]["PrincipalId"] = "g1"
          /\ result[i]["PrincipalType"] = "GROUP"
          /\ result[i]["OriginalPrincipalId"] = "u1"

-----------------------------------------------------------------------------
(* Properties of describe_permissions_sets, checked under SpecDescribe. *)

InputArns == {permission_sets[i] : i \in 1..Len(permission_sets)}

NotFound == "ResourceNotFoundException"

BoundaryLookup == "get_permissions_boundary_for_permission_set"

\* the last error the service answered is the boundary lookup's not-found
RecoveredFault ==
    /\ fault # <<>>
    /\ fault[1].call = BoundaryLookup
    /\ fault[1].kind = NotFound

\* C2: when the boundary lookup of a permission set raises resource-not-found,
\* nothing is raised: the record gets permission_boundary = False, the managed
\* policies are fetched next, and the loop goes on until the whole mapping is
\* returned, the record in it with permission_boundary = False and its managed
\* policies.
C2_NotFoundMeansNoBoundary ==
    /\ RecoveredFault => (raised = "" /\ pc # "raised")
    /\ (pc = "managed" /\ lastBoundary[permission_set] = NotFound) =>
          /\ "permission_boundary" \in DOMAIN permission_set_lookup[permission_set]
          /\ permission_set_lookup[permission_set]["permission_boundary"] = PyFalse
    /\ pc = "done" =>
          \A a \in InputArns :
              lastBoundary[a] = NotFound =>
                  /\ a \in DOMAIN returned[1]
                  /\ "permission_boundary" \in DOMAIN returned[1][a]
                  /\ returned[1][a]["permission_boundary"] = PyFalse
                  /\ "managed_policies " \in DOMAIN returned[1][a]

\* C2's case: the boundary lookup of the first of two permission sets raised
\* not-found, the second has a boundary, and the mapping of both is returned.
C2_Witness ==
    /\ pc = "done"
    /\ Len(permission_sets) >= 2
    /\ permission_sets[1] # permission_sets[2]
    /\ lastBoundary[permission_sets[1]] = NotFound
    /\ lastBoundary[permission_sets[2]] = "boundary:bp1"
    /\ DOMAIN returned[1] = InputArns
    /\ returned[1][permission_sets[1]]["managed_policies "] = <<"mp1", "mp1">>

\* C3: the mapping describe_permissions_sets returns has the input ARNs as its
\* keys, no more and no fewer, and every value has an inline_policy entry and a
\* 'managed_policies ' entry, also when the policy is empty and no managed
\* policy is attached.
C3_KeysAreTheInputArns ==
    pc = "done" =>
        /\ Len(returned) = 1
        /\ DOMAIN returned[1] = InputArns
        /\ \A a \in InputArns :
              /\ "inline_policy" \in DOMAIN returned[1][a]
              /\ "managed_policies " \in DOMAIN returned[1][a]

\* C3's case: two ARNs in, two keys out, one record with an empty inline policy
\* and no managed policy.
C3_Witness ==
    /\ pc = "done"
    /\ InputArns = {"arn:A", "arn:B"}
    /\ DOMAIN returned[1] = {"arn:A", "arn:B"}
    /\ returned[1]["arn:A"]["inline_policy"] = ""
    /\ returned[1]["arn:A"]["managed_policies "] = <<>>
    /\ returned[1]["arn:B"]["inline_policy"] = "{policy}"

\* C6: an error of a remote call, other than the boundary lookup's not-found,
\* leaves describe_permissions_sets as raised: that call is the last one issued,
\* and no mapping is returned, whatever records were complete.
C6_OtherErrorsPropagate ==
    /\ (fault # <<>> /\ ~RecoveredFault) =>
          /\ pc = "raised"
          /\ raised = fault[1].kind
          /\ returned = <<>>
          /\ Len(calls) = fault[1].at
          /\ calls[Len(calls)][1] = fault[1].call
    /\ pc = "raised" => (fault # <<>> /\ ~RecoveredFault /\ returned = <<>>)
    /\ returned # <<>> => (pc = "done" /\ raised = "")

\* C6's case: the first permission set's record is complete, and the describe
\* call of the second raises not-found.
C6_Witness ==
    /\ pc = "raised"
    /\ idx = 2
    /\ Len(permission_sets) = 3
    /\ "managed_policies " \in DOMAIN permission_set_lookup[permission_sets[1]]
    /\ fault[1].call = "describe_permission_set"
    /\ fault[1].kind = NotFound
    /\ returned = <<>>

Round(a) ==
    << <<"describe_permission_set", a>>,
       <<"get_inline_policy_for_permission_set", a>>,
       <<"get_permissions_boundary_for_permission_set", a>>,
       <<"list_managed_policies_in_permission_set", a>> >>

RECURSIVE Rounds(_)
Rounds(arns) ==
    IF arns = <<>> THEN <<>>
    ELSE Rounds(SubSeq(arns, 1, Len(arns) - 1)) \o Round(arns[Len(arns)])

\* the operations of the current round issued when the loop is at a step
IssuedInRound ==
    CASE pc = "describe" -> 0
      [] pc = "inline" -> 1
      [] pc = "boundary" -> 2
      [] pc = "managed" -> IF pageSizes = <<>> THEN 3 ELSE 4

\* C10: the remote operations are issued one after the other, permission set by
\* permission set in input order, and within a round in the order describe, get
\* inline policy, get permissions boundary, list managed policies; a round's four
\* are issued before any of the next round; a run without unrecovered error ends
\* after exactly n rounds, and a run that has not ended can always take its next
\* step.
C10_SequentialRounds ==
    /\ Len(calls) <= 4 * Len(permission_sets)
    /\ calls = SubSeq(Rounds(permission_sets), 1, Len(calls))
    /\ pc \in {"describe", "inline", "boundary", "managed"} =>
          /\ idx \in 1..Len(permission_sets)
          /\ Len(calls) = 4 * (idx - 1) + IssuedInRound
    /\ pc = "done" =>
          /\ calls = Rounds(permission_sets)
          /\ Len(calls) = 4 * Len(permission_sets)
          /\ idx = Len(permission_sets) + 1
    /\ pc \in {"done", "raised"} \/ ENABLED NextDescribe

\* C10's case: three permission sets, one of them twice, twelve operations, a
\* recovered not-found among them.
C10_Witness ==
    /\ pc = "done"
    /\ permission_sets = <<"arn:B", "arn:A", "arn:B">>
    /\ Len(calls) = 12
    /\ calls[5] = <<"describe_permission_set", "arn:A">>
    /\ lastBoundary["arn:A"] = NotFound

====
